---- MODULE Spec2Model ----
(***************************************************************************)
(* Model of v15.py: the indicator engine (calculate_ema, calculate_macd,   *)
(* calculate_indicators), the rule chain (generate_signals), the Telegram  *)
(* transport (send_telegram_message) and the Streamlit polling loop that   *)
(* deduplicates notifications through st.session_state.sent_signals.       *)
(*                                                                         *)
(* Numbers.  Prices are integers in mills (1/1000 of the currency unit),   *)
(* volumes are integers.  The float columns EMA5, EMA10, EMA20, MACD,      *)
(* MACD_signal, MACD_hist and avg_volume are fixed-point numbers with      *)
(* SCALE units per mill / per share, rounded down at every division.       *)
(* pandas' NaN is the value NaN; every comparison with it is FALSE.        *)
(* Sequences are 1-based: Python's df.iloc[i] is df.rows[i + 1].           *)
(***************************************************************************)
EXTENDS Integers, Sequences, FiniteSets, TLC

\* ------------------------------------------------------------------------
\* Program constants
\* ------------------------------------------------------------------------
MIN_WARMUP == 50
MIN_SIGNAL_BARS == 30
WINDOW == 20
LOOKBACK == 10
MAX_SIGNALS == 5
\* Fixed-point resolution of the float columns.
SCALE == 100

\* A float that may be NaN is a set: NaN is empty, a number v is {v}.
NaN == {}

Num(v) == {v}

Val(x) == CHOOSE v \in x : TRUE

\* ------------------------------------------------------------------------
\* Float semantics: comparisons with NaN are False, arithmetic keeps NaN.
\* ------------------------------------------------------------------------
Gt(a, b) == a # NaN /\ b # NaN /\ Val(a) > Val(b)

Lt(a, b) == a # NaN /\ b # NaN /\ Val(a) < Val(b)

Times(a, k) == IF a = NaN THEN NaN ELSE Num(Val(a) * k)

Fx(x) == x * SCALE

\* A DataFrame is its rows and its column names; get_stock_data's None is
\* NoneDf.
NoneDf == [kind |-> "None", rows |-> <<>>, columns |-> {}]

OHLCV == {"high", "low", "close", "volume"}

INDICATORS ==
    {"EMA5", "EMA10", "EMA20", "MACD", "MACD_signal", "MACD_hist",
     "avg_volume", "resistance"}

DataFrame(rows) == [kind |-> "DataFrame", rows |-> rows, columns |-> OHLCV]

IsNone(df) == df.kind = "None"

len(df) == Len(df.rows)

iloc(df, i) == df.rows[i + 1]

Column(df, name) == [k \in 1..Len(df.rows) |-> df.rows[k][name]]

MaxOf(S) == CHOOSE x \in S : \A y \in S : y <= x

MinOf(S) == CHOOSE x \in S : \A y \in S : x <= y

PyMax(a, b) == IF a >= b THEN a ELSE b

\* '{x:.2f}' of the value num/den cents: the nearest cent, ties to even.
Fmt2(num, den) ==
    LET q == num \div den
        r == num % den
    IN  IF 2 * r > den \/ (2 * r = den /\ q % 2 = 1) THEN q + 1 ELSE q

\* ------------------------------------------------------------------------
\* calculate_ema: series.ewm(alpha = 2/(period+1), adjust=False).mean()
\*   y[0] = x[0];  y[t] = alpha * x[t] + (1 - alpha) * y[t-1]
\* ------------------------------------------------------------------------
\* EwmRange extends acc = y[1..lo-1] to y[1..hi], one half of the range
\* after the other.
RECURSIVE EwmRange(_, _, _, _, _)
EwmRange(series, period, lo, hi, acc) ==
    IF lo > hi THEN acc
    ELSE IF lo = hi
    THEN Append(acc,
            IF lo = 1 THEN series[1]
            ELSE (2 * series[lo] + (period - 1) * acc[lo - 1])
                    \div (period + 1))
    ELSE LET mid == (lo + hi) \div 2
             left == EwmRange(series, period, lo, mid, acc)
         IN  IF Len(left) = mid
             THEN EwmRange(series, period, mid + 1, hi, left)
             ELSE left

calculate_ema(series, period) ==
    EwmRange(series, period, 1, Len(series), <<>>)

calculate_macd(close) ==
    LET ema_fast == calculate_ema(close, 12)
        ema_slow == calculate_ema(close, 26)
        macd_line == [t \in 1..Len(close) |-> ema_fast[t] - ema_slow[t]]
        signal_line == calculate_ema(macd_line, 9)
    IN  [macd_line |-> macd_line,
         signal_line |-> signal_line,
         histogram |-> [t \in 1..Len(close) |-> macd_line[t] - signal_line[t]]]

RECURSIVE SumRange(_, _, _)
SumRange(series, lo, hi) ==
    IF lo > hi THEN 0
    ELSE IF lo = hi THEN series[lo]
    ELSE LET mid == (lo + hi) \div 2
         IN  SumRange(series, lo, mid) + SumRange(series, mid + 1, hi)

\* series.rolling(window).mean(): NaN for the first window-1 entries.
RollingMean(series, window) ==
    [t \in DOMAIN series |->
        IF t < window THEN NaN
        ELSE Num((SumRange(series, t - window + 1, t) * SCALE) \div window)]

RECURSIVE MaxRange(_, _, _)
MaxRange(series, lo, hi) ==
    IF lo = hi THEN series[lo]
    ELSE LET mid == (lo + hi) \div 2
         IN  PyMax(MaxRange(series, lo, mid), MaxRange(series, mid + 1, hi))

\* series.rolling(window).max(): NaN for the first window-1 entries.
RollingMax(series, window) ==
    [t \in DOMAIN series |->
        IF t < window THEN NaN
        ELSE Num(MaxRange(series, t - window + 1, t))]

\* Faulty variant of Shift1: the shift is left out, so the window ends at the bar
\* itself.
Shift1_Missing(series) == [t \in DOMAIN series |-> series[t]]

\* series.shift(1): every entry moves one place later, the first is NaN.
Shift1(series) ==
    [t \in DOMAIN series |-> IF t = 1 THEN NaN ELSE series[t - 1]]

Resistance(high) == Shift1(RollingMax(high, WINDOW))

calculate_indicators(df) ==
    IF IsNone(df) \/ len(df) < MIN_WARMUP THEN df
    ELSE
    LET close == [t \in 1..len(df) |-> Fx(df.rows[t].close)]
        ema5 == calculate_ema(close, 5)
        ema10 == calculate_ema(close, 10)
        ema20 == calculate_ema(close, 20)
        m == calculate_macd(close)
        avg == RollingMean(Column(df, "volume"), WINDOW)
        res == Resistance(Column(df, "high"))
    IN  [kind |-> "DataFrame",
         columns |-> OHLCV \cup INDICATORS,
         rows |-> [t \in 1..len(df) |->
            [timestamp |-> df.rows[t].timestamp, high |-> df.rows[t].high,
             low |-> df.rows[t].low, close |-> df.rows[t].close,
             volume |-> df.rows[t].volume,
             EMA5 |-> ema5[t], EMA10 |-> ema10[t], EMA20 |-> ema20[t],
             MACD |-> m.macd_line[t], MACD_signal |-> m.signal_line[t],
             MACD_hist |-> m.histogram[t],
             avg_volume |-> avg[t], resistance |-> res[t]]]]

\* ------------------------------------------------------------------------
\* generate_signals
\* ------------------------------------------------------------------------
Returned(v) == [raised |-> FALSE, value |-> v]

Raised(e) == [raised |-> TRUE, value |-> e]

\* The columns the loop body reads from row and prev (lines 78-85).
ReadColumns ==
    {"close", "EMA5", "EMA10", "MACD", "MACD_signal", "volume",
     "avg_volume", "resistance"}

\* Faulty variant of VolumeSurge: a missing average is filled with 0 and the
\* comparison is not strict.
VolumeSurge_Filled(row) ==
    row.volume * SCALE * 10
        >= (IF row.avg_volume = NaN THEN 0 ELSE Val(row.avg_volume) * 12)

VolumeSurge(row) == Gt(Num(row.volume * SCALE * 10), Times(row.avg_volume, 12))

EmaUp(row) == Fx(row.close) > row.EMA5 /\ row.EMA5 > row.EMA10

MacdUp(row, prev) ==
    row.MACD > row.MACD_signal /\ row.MACD_signal > prev.MACD_signal

EmaDown(row) == Fx(row.close) < row.EMA5 /\ row.EMA5 < row.EMA10

MacdDown(row, prev) ==
    row.MACD < row.MACD_signal /\ row.MACD_signal < prev.MACD_signal

CondBuyReversal(row, prev) ==
    EmaUp(row) /\ MacdUp(row, prev) /\ VolumeSurge(row)

CondBuyBreakout(row, prev) ==
    /\ Gt(Num(row.close), row.resistance)
    /\ Gt(row.resistance, Num(prev.close))
    /\ VolumeSurge(row)
    /\ row.MACD > 0

CondSellReversal(row, prev) ==
    EmaDown(row) /\ MacdDown(row, prev) /\ VolumeSurge(row)

CondSellBreakoutFailure(row, prev) ==
    /\ Lt(Num(row.close), row.resistance)
    /\ Lt(row.resistance, Num(prev.close))
    /\ row.MACD < 0

\* df['low'].iloc[max(0, i-10):i+1].min() and the same for high, max.
RecentLow(df, i) ==
    MinOf({iloc(df, k).low : k \in PyMax(0, i - LOOKBACK)..i})

RecentHigh(df, i) ==
    MaxOf({iloc(df, k).high : k \in PyMax(0, i - LOOKBACK)..i})

\* The formatted message of one signal: the kind stands for the fixed words,
\* the numbers are what the '.2f' fields print (cents).
Message(kind, row, stop_num, target) ==
    [kind |-> kind, price |-> Fmt2(row.close, 10), time |-> row.timestamp,
     stop |-> Fmt2(stop_num, 1000), target |-> target]

\* Faulty variant of Rule: four independent ifs instead of the if/elif chain.
Rule_Independent(df, i) ==
    LET row == iloc(df, i)
        prev == iloc(df, i - 1)
    IN  (IF CondBuyReversal(row, prev)
         THEN <<Message("BUY_REVERSAL", row, RecentLow(df, i) * 98, {})>>
         ELSE <<>>)
        \o (IF CondBuyBreakout(row, prev)
            THEN <<Message("BUY_BREAKOUT", row, RecentLow(df, i) * 98,
                           {Fmt2(Val(row.resistance) * 102, 1000)})>>
            ELSE <<>>)
        \o (IF CondSellReversal(row, prev)
            THEN <<Message("SELL_REVERSAL", row, RecentHigh(df, i) * 102, {})>>
            ELSE <<>>)
        \o (IF CondSellBreakoutFailure(row, prev)
            THEN <<Message("SELL_BREAKOUT_FAILURE", row,
                           RecentHigh(df, i) * 102, {})>>
            ELSE <<>>)

\* One pass of the loop body for bar i (1 <= i < len(df)): the signals it
\* appends, none or one.
Rule(df, i) ==
    LET row == iloc(df, i)
        prev == iloc(df, i - 1)
    IN  IF CondBuyReversal(row, prev)
        THEN <<Message("BUY_REVERSAL", row, RecentLow(df, i) * 98, {})>>
        ELSE IF CondBuyBreakout(row, prev)
        THEN <<Message("BUY_BREAKOUT", row, RecentLow(df, i) * 98,
                       {Fmt2(Val(row.resistance) * 102, 1000)})>>
        ELSE IF CondSellReversal(row, prev)
        THEN <<Message("SELL_REVERSAL", row, RecentHigh(df, i) * 102, {})>>
        ELSE IF CondSellBreakoutFailure(row, prev)
        THEN <<Message("SELL_BREAKOUT_FAILURE", row, RecentHigh(df, i) * 102, {})>>
        ELSE <<>>

\* The signals the loop appends over bars lo..hi, in bar order.
RECURSIVE ScanRange(_, _, _)
ScanRange(df, lo, hi) ==
    IF lo > hi THEN <<>>
    ELSE IF lo = hi THEN Rule(df, lo)
    ELSE LET mid == (lo + hi) \div 2
         IN  ScanRange(df, lo, mid) \o ScanRange(df, mid + 1, hi)

\* signals after the loop has run over range(1, len(df)).
ScanSignals(df) == ScanRange(df, 1, len(df) - 1)

\* Faulty variant of LastK: signals[:5], the first k instead of the last k.
LastK_First(s, k) == IF Len(s) <= k THEN s ELSE SubSeq(s, 1, k)

\* signals[-5:]
LastK(s, k) == IF Len(s) <= k THEN s ELSE SubSeq(s, Len(s) - k + 1, Len(s))

generate_signals(df) ==
    IF IsNone(df) \/ len(df) < MIN_SIGNAL_BARS THEN Returned(<<>>)
    ELSE IF ~(ReadColumns \subseteq df.columns) THEN Raised("KeyError")
    ELSE Returned(LastK(ScanSignals(df), MAX_SIGNALS))

\* ------------------------------------------------------------------------
\* Input bar series.  get_stock_data returns whatever the feed holds; the
\* series enumerated here are piecewise-linear closes: flat up to bar kick,
\* step1 per bar up to bar turn, step2 per bar after it, and jump added on
\* the last bar.  high = close + up (a negative 'up' is a feed whose
\* high lies under its close: nothing in the code validates the bars),
\* low = close - 2.
\* ------------------------------------------------------------------------
MaxExtra == 1

BasePrice == 1500

Turn == 40

ZeroFrom == 8

Clamp(x, lo, hi) == IF x < lo THEN lo ELSE IF x > hi THEN hi ELSE x

CloseAt(p, t) ==
    BasePrice + p.step1 * Clamp(t - p.kick, 0, Turn - p.kick)
              + p.step2 * PyMax(0, t - Turn)
              + (IF t = p.n - 1 THEN p.jump ELSE 0)

VolumeAt(p, t) ==
    CASE p.vol = "flat" -> 200
      [] p.vol = "alt" -> IF t % 2 = 0 THEN 100 ELSE 300
      [] p.vol = "zero" -> IF t >= ZeroFrom /\ t < MIN_SIGNAL_BARS THEN 0
                           ELSE IF t % 2 = 0 THEN 100 ELSE 300

Series(p) ==
    DataFrame([k \in 1..p.n |->
        [timestamp |-> k - 1,
         high |-> CloseAt(p, k - 1) + p.up,
         low |-> CloseAt(p, k - 1) - 2,
         close |-> CloseAt(p, k - 1),
         volume |-> VolumeAt(p, k - 1)]])

Lengths ==
    {0, 1, MIN_SIGNAL_BARS - 1, MIN_SIGNAL_BARS, MIN_WARMUP - 1}
        \cup (MIN_WARMUP..(MIN_WARMUP + MaxExtra))

Shapes ==
    [n : Lengths, kick : {5, 36}, step1 : {-30, 0, 10},
     step2 : {-30, -1, 10, 30}, jump : {-20, 0, 20},
     vol : {"flat", "alt", "zero"}, up : {2, -1}]

Inputs == {NoneDf} \cup {Series(p) : p \in Shapes}

\* ------------------------------------------------------------------------
\* send_telegram_message: what the HTTP call answers decides the result.
\* ------------------------------------------------------------------------
Responses == {"200", "500", "exception"}

send_telegram_message(has_config, response) ==
    IF ~has_config THEN FALSE
    ELSE IF response = "exception" THEN FALSE
    ELSE response = "200"

\* get_stock_data: None when the download is empty (or fails), the bars
\* otherwise.
get_stock_data(feed) == IF feed.n = 0 THEN NoneDf ELSE Series(feed)

\* ------------------------------------------------------------------------
\* The monitoring session
\* ------------------------------------------------------------------------
Instruments == {"TSLA", "NIO"}

MaxTicks == 3

MaxEdits == 1

\* What the text input can hold: the default list and the lists the user
\* types between two runs.
SymbolLists == {<<>>, <<"TSLA">>, <<"NIO", "TSLA">>, <<"TSLA", "NIO">>}

\* What a download can return for an instrument: nothing, a history under
\* the warm-up length, or a flat warm history whose open last bar jumps on
\* a volume surge; the jump grows while the bar is open.
FeedLengths == {0, MIN_SIGNAL_BARS, MIN_WARMUP}

TailJumps == {50, 53, 56}

Feed(n, jump) ==
    [n |-> n, kick |-> 36, step1 |-> 0, step2 |-> 0, jump |-> jump,
     vol |-> "alt", up |-> 2]

FirstJump == CHOOSE j \in TailJumps : \A k \in TailJumps : j <= k

Range(seq) == {seq[k] : k \in 1..Len(seq)}

\* The columns the data table of line 167 selects.
DisplayColumns ==
    {"close", "EMA5", "EMA10", "EMA20", "MACD", "MACD_signal", "MACD_hist",
     "volume", "resistance"}

\* f"[{symbol}] {sig}"
FullSig(symbol, sig) ==
    [symbol |-> symbol, kind |-> sig.kind, price |-> sig.price,
     time |-> sig.time, stop |-> sig.stop, target |-> sig.target]

\* st.session_state.sent_signals.get(symbol, [])
SentGet(sent, symbol) == IF symbol \in DOMAIN sent THEN sent[symbol] ELSE <<>>

\* Faulty variant of NotYetSent: the membership test is gone.
NotYetSent_Always(sent, symbol, full_sig) == TRUE

\* full_sig not in st.session_state.sent_signals.get(symbol, [])
NotYetSent(sent, symbol, full_sig) ==
    full_sig \notin Range(SentGet(sent, symbol))

\* Faulty variant of NotifyOne: the text is recorded before the call, whatever the
\* transport answers.
NotifyOne_RecordFirst(st, has_config, symbol, sig, response, now) ==
    LET full_sig == FullSig(symbol, sig)
    IN  IF ~NotYetSent(st.sent, symbol, full_sig) \/ ~has_config THEN st
        ELSE LET success == send_telegram_message(has_config, response)
                 sent_log == Append(st.log,
                    [text |-> full_sig, ok |-> success, tick |-> now])
             IN  IF symbol \notin DOMAIN st.sent
                 THEN [st EXCEPT !.log = sent_log, !.raised = TRUE]
                 ELSE [st EXCEPT !.log = sent_log,
                                 !.sent[symbol] = Append(@, full_sig)]

\* One pass of the loop over signals (lines 199-206) on st = the record,
\* the transport's log and whether the script has raised.
NotifyOne(st, has_config, symbol, sig, response, now) ==
    LET full_sig == FullSig(symbol, sig)
    IN  IF ~NotYetSent(st.sent, symbol, full_sig) \/ ~has_config THEN st
        ELSE LET success == send_telegram_message(has_config, response)
                 sent_log == Append(st.log,
                    [text |-> full_sig, ok |-> success, tick |-> now])
             IN  IF ~success THEN [st EXCEPT !.log = sent_log]
                 ELSE IF symbol \notin DOMAIN st.sent
                 THEN [st EXCEPT !.log = sent_log, !.raised = TRUE]
                 ELSE [st EXCEPT !.log = sent_log,
                                 !.sent[symbol] = Append(@, full_sig)]

\* ------------------------------------------------------------------------
\* State
\* ------------------------------------------------------------------------
VARIABLES
    df,             \* pipeline: the DataFrame handed to calculate_indicators
    df_ind,         \* pipeline: what calculate_indicators returned
    signals,        \* pipeline: what generate_signals returned or raised
    stage,          \* pipeline: "input", "indicators", "signals"
    symbols_input,  \* the symbol list the text input holds
    symbols,        \* the list the running script read from it (line 139)
    has_sent,       \* 'sent_signals' in st.session_state
    sent_signals,   \* st.session_state.sent_signals: symbol -> list of texts
    configured,     \* TELEGRAM_BOT_TOKEN and TELEGRAM_CHAT_ID are both set
    market,         \* instrument -> what a download returns now
    pc,             \* "idle" between runs, "run" at the head of the loop
                    \* over symbols, "notify" in the loop over signals,
                    \* "stopped" after an uncaught exception
    idx,            \* the loop's position in symbols (0-based)
    todo,           \* the signals of the symbol at idx (line 196)
    sig_idx,        \* the inner loop's position in todo (0-based)
    evaluated,      \* the positions whose loop body has run in this run
    log,            \* every call of the transport: text, ok, tick
    produced,       \* every text generate_signals has produced in a run,
                    \* with the tick of the first run that produced it
    tick,           \* runs of the script so far
    edits           \* edits of the text input so far

pipeline_vars == <<df, df_ind, signals, stage>>

session_vars ==
    <<symbols_input, symbols, has_sent, sent_signals, configured, market,
      pc, idx, todo, sig_idx, evaluated, log, produced, tick, edits>>

vars == <<pipeline_vars, session_vars>>

PipelineUnused ==
    /\ df = NoneDf
    /\ df_ind = NoneDf
    /\ signals = Returned(<<>>)
    /\ stage = "unused"

SessionStart ==
    /\ symbols_input = <<"TSLA">>
    /\ symbols = <<>>
    /\ has_sent = FALSE
    /\ sent_signals = <<>>
    /\ pc = "idle"
    /\ idx = 0
    /\ todo = <<>>
    /\ sig_idx = 0
    /\ evaluated = {}
    /\ log = <<>>
    /\ produced = {}
    /\ tick = 0
    /\ edits = 0

Init ==
    /\ PipelineUnused
    /\ SessionStart
    /\ configured \in BOOLEAN
    /\ market \in [Instruments -> {Feed(n, FirstJump) : n \in FeedLengths}]

Between == pc \in {"idle", "stopped"}

\* The user edits the text input between two runs.
EditSymbols ==
    /\ Between
    /\ edits < MaxEdits
    /\ edits' = edits + 1
    /\ \E list \in SymbolLists \ {symbols_input} : symbols_input' = list
    /\ UNCHANGED <<symbols, has_sent, sent_signals, configured, market, pc,
                   idx, todo, sig_idx, evaluated, log, produced, tick>>
    /\ UNCHANGED pipeline_vars

\* The open last bar of an instrument moves between two runs.
TailUpdate ==
    /\ Between
    /\ \E s \in Instruments : \E j \in TailJumps :
          /\ market[s].n > 0
          /\ j > market[s].jump
          /\ market' = [market EXCEPT ![s].jump = j]
    /\ UNCHANGED <<symbols_input, symbols, has_sent, sent_signals, configured,
                   pc, idx, todo, sig_idx, evaluated, log, produced, tick,
                   edits>>
    /\ UNCHANGED pipeline_vars

\* A run of the script starts (st.rerun after the sleep, or a widget
\* event): lines 138-153, up to the loop over symbols.
Rerun ==
    /\ Between
    /\ tick < MaxTicks
    /\ tick' = tick + 1
    /\ symbols' = symbols_input
    /\ has_sent' = TRUE
    /\ sent_signals' =
          IF has_sent THEN sent_signals
          ELSE [s \in Range(symbols_input) |-> <<>>]
    /\ pc' = "run"
    /\ idx' = 0
    /\ todo' = <<>>
    /\ sig_idx' = 0
    /\ evaluated' = {}
    /\ UNCHANGED <<symbols_input, configured, market, log, produced, edits>>
    /\ UNCHANGED pipeline_vars

\* The texts of a signal list not produced before, stamped with the tick.
FirstProduced(symbol, sigs, now) ==
    {[text |-> FullSig(symbol, sigs[k]), tick |-> now] : k \in 1..Len(sigs)}
        \ {[text |-> p.text, tick |-> now] : p \in produced}

\* The loop body for symbols[idx] up to the loop over its signals (lines
\* 161-197): download, indicators, the data table, generate_signals.
Evaluate ==
    /\ pc = "run"
    /\ idx < Len(symbols)
    /\ evaluated' = evaluated \cup {idx}
    /\ LET data == get_stock_data(market[symbols[idx + 1]])
           ind == calculate_indicators(data)
           sigs == generate_signals(ind)
       IN  IF IsNone(data)
           THEN /\ pc' = "run" /\ idx' = idx + 1
                /\ UNCHANGED <<todo, sig_idx, produced>>
           ELSE IF ~(DisplayColumns \subseteq ind.columns) \/ sigs.raised
           THEN pc' = "stopped" /\ UNCHANGED <<idx, todo, sig_idx, produced>>
           ELSE /\ pc' = "notify" /\ todo' = sigs.value /\ sig_idx' = 0
                /\ produced' = produced
                      \cup FirstProduced(symbols[idx + 1], sigs.value, tick)
                /\ UNCHANGED idx
    /\ UNCHANGED <<symbols_input, symbols, has_sent, sent_signals, configured,
                   market, log, tick, edits>>
    /\ UNCHANGED pipeline_vars

\* One pass of the loop over the signals of symbols[idx] (lines 198-210).
Notify ==
    /\ pc = "notify"
    /\ sig_idx < Len(todo)
    /\ \E response \in Responses :
          LET st == NotifyOne(
                      [sent |-> sent_signals, log |-> log, raised |-> FALSE],
                      configured, symbols[idx + 1], todo[sig_idx + 1],
                      response, tick)
          IN  /\ sent_signals' = st.sent
              /\ log' = st.log
              /\ pc' = IF st.raised THEN "stopped" ELSE "notify"
              /\ sig_idx' = IF st.raised THEN sig_idx ELSE sig_idx + 1
    /\ UNCHANGED <<symbols_input, symbols, has_sent, configured, market, idx,
                   todo, evaluated, produced, tick, edits>>
    /\ UNCHANGED pipeline_vars

\* The loop over signals is over (or there were none): the next symbol.
NextSymbol ==
    /\ pc = "notify"
    /\ sig_idx = Len(todo)
    /\ pc' = "run"
    /\ idx' = idx + 1
    /\ todo' = <<>>
    /\ sig_idx' = 0
    /\ UNCHANGED <<symbols_input, symbols, has_sent, sent_signals, configured,
                   market, evaluated, log, produced, tick, edits>>
    /\ UNCHANGED pipeline_vars

\* The loop over symbols is over: the script sleeps until the next run, or
\* ends (auto_refresh off).
Finish ==
    /\ pc = "run"
    /\ idx = Len(symbols)
    /\ pc' = "idle"
    /\ UNCHANGED <<symbols_input, symbols, has_sent, sent_signals, configured,
                   market, idx, todo, sig_idx, evaluated, log, produced, tick,
                   edits>>
    /\ UNCHANGED pipeline_vars

Next ==
    \/ EditSymbols
    \/ TailUpdate
    \/ Rerun
    \/ Evaluate
    \/ Notify
    \/ NextSymbol
    \/ Finish

Spec == Init /\ [][Next]_vars

\* ------------------------------------------------------------------------
\* The pipeline on one series: calculate_indicators, then generate_signals
\* ------------------------------------------------------------------------
SessionUnused ==
    /\ SessionStart
    /\ configured = FALSE
    /\ market = [s \in Instruments |-> Feed(0, FirstJump)]

InitPipeline ==
    /\ df \in Inputs
    /\ df_ind = NoneDf
    /\ signals = Returned(<<>>)
    /\ stage = "input"
    /\ SessionUnused

CalcIndicators ==
    /\ stage = "input"
    /\ df_ind' = calculate_indicators(df)
    /\ stage' = "indicators"
    /\ UNCHANGED <<df, signals, session_vars>>

GenSignals ==
    /\ stage = "indicators"
    /\ signals' = generate_signals(df_ind)
    /\ stage' = "signals"
    /\ UNCHANGED <<df, df_ind, session_vars>>

NextPipeline == CalcIndicators \/ GenSignals

SpecPipeline == InitPipeline /\ [][NextPipeline]_vars

\* ------------------------------------------------------------------------
\* Properties of the pipeline (checked under SpecPipeline)
\* ------------------------------------------------------------------------
Scanned == stage = "signals" /\ ~signals.raised

Framed == stage # "input" /\ ~IsNone(df_ind) /\ INDICATORS \subseteq df_ind.columns

Bars(d) == 1..(len(d) - 1)

PRIORITY ==
    <<"BUY_REVERSAL", "BUY_BREAKOUT", "SELL_REVERSAL", "SELL_BREAKOUT_FAILURE">>

Holds(k, row, prev) ==
    CASE k = 1 -> CondBuyReversal(row, prev)
      [] k = 2 -> CondBuyBreakout(row, prev)
      [] k = 3 -> CondSellReversal(row, prev)
      [] k = 4 -> CondSellBreakoutFailure(row, prev)

\* The signals of a list that carry the timestamp of bar i.
AtBar(sigs, d, i) ==
    {m \in 1..Len(sigs) : sigs[m].time = iloc(d, i).timestamp}

\* C4 as claimed: a series shorter than the warm-up minimum (None and the
\* empty series included) run through calculate_indicators and then
\* generate_signals gives the empty list and raises nothing.
C4_ShortSeriesYieldsEmpty ==
    (stage = "signals" /\ (IsNone(df) \/ len(df) < MIN_WARMUP))
        => signals = Returned(<<>>)

\* C5: for every bar the loop evaluates, at most one signal is emitted, and
\* it is the one of the first rule, in the order BUY_REVERSAL, BUY_BREAKOUT,
\* SELL_REVERSAL, SELL_BREAKOUT_FAILURE, whose condition holds; none is
\* emitted exactly when no condition holds.
C5_OneRulePerBarByPriority ==
    (Framed /\ stage = "signals") =>
        LET all == ScanSignals(df_ind)
        IN  \A i \in Bars(df_ind) :
                LET at == AtBar(all, df_ind, i)
                    row == iloc(df_ind, i)
                    prev == iloc(df_ind, i - 1)
                IN  /\ Cardinality(at) <= 1
                    /\ \A m \in at :
                         \E k \in 1..4 :
                            /\ all[m].kind = PRIORITY[k]
                            /\ Holds(k, row, prev)
                            /\ \A j \in 1..(k - 1) : ~Holds(j, row, prev)
                    /\ at = {} => \A k \in 1..4 : ~Holds(k, row, prev)

C5_Witness ==
    /\ Framed /\ stage = "signals"
    /\ \E i \in Bars(df_ind) :
          /\ CondBuyReversal(iloc(df_ind, i), iloc(df_ind, i - 1))
          /\ CondBuyBreakout(iloc(df_ind, i), iloc(df_ind, i - 1))
          /\ \E m \in AtBar(ScanSignals(df_ind), df_ind, i) :
                ScanSignals(df_ind)[m].kind = "BUY_REVERSAL"

\* The high column with bar j (0-based) changed by d.
PerturbHigh(high, j, d) ==
    [t \in 1..Len(high) |-> IF t = j + 1 THEN high[t] + d ELSE high[t]]

HighDeltas == {-500, 500}

\* C6: for every bar i >= W, resistance[i] is the maximum of high over bars
\* i-W..i-1, and changing high[j] for any j >= i leaves resistance[i] as it
\* was.
C6_NoLookahead ==
    (Framed /\ stage = "indicators") =>
        LET high == Column(df, "high")
        IN  \A i \in WINDOW..(len(df) - 1) :
              /\ \E r \in {high[k + 1] : k \in (i - WINDOW)..(i - 1)} :
                    /\ iloc(df_ind, i).resistance = Num(r)
                    /\ \A k \in (i - WINDOW)..(i - 1) : high[k + 1] <= r
              /\ \A j \in i..(len(df) - 1) : \A d \in HighDeltas :
                    Resistance(PerturbHigh(high, j, d))[i + 1]
                        = iloc(df_ind, i).resistance

C6_Witness ==
    /\ Framed /\ stage = "indicators"
    /\ \E i \in WINDOW..(len(df) - 1) :
          iloc(df, i).high > Val(iloc(df_ind, i).resistance)

\* C8: generate_signals returns at most 5 signals: the last 5, in increasing
\* bar order, of all the signals the rules fire over bars 1..end, or all of
\* them when fewer than 5 fire.
C8_LastFiveSignals ==
    Scanned =>
        LET out == signals.value
            all == IF Framed /\ len(df_ind) >= MIN_SIGNAL_BARS
                   THEN ScanSignals(df_ind) ELSE <<>>
        IN  /\ Len(out) <= MAX_SIGNALS
            /\ Len(out) = IF Len(all) < MAX_SIGNALS THEN Len(all) ELSE MAX_SIGNALS
            /\ \A m \in 1..Len(out) : out[m] = all[Len(all) - Len(out) + m]
            /\ \A m \in 1..(Len(out) - 1) : out[m].time < out[m + 1].time

C8_Witness ==
    /\ Scanned /\ Framed
    /\ Len(ScanSignals(df_ind)) > MAX_SIGNALS
    /\ Len(signals.value) = MAX_SIGNALS

VOLUME_RULES == {"BUY_REVERSAL", "BUY_BREAKOUT", "SELL_REVERSAL"}

NoAverage(row) == row.avg_volume = NaN \/ row.avg_volume = Num(0)

\* C9: on a series with non-negative volumes, at every bar whose avg_volume
\* is zero or undefined the volume condition is false, and no BUY_REVERSAL,
\* BUY_BREAKOUT or SELL_REVERSAL is emitted for that bar.
C9_NoAverageNoVolumeRule ==
    (Framed /\ stage = "signals" /\ \A t \in 1..len(df) : df.rows[t].volume >= 0)
        => LET all == ScanSignals(df_ind)
           IN  \A i \in Bars(df_ind) :
                 NoAverage(iloc(df_ind, i)) =>
                    /\ ~VolumeSurge(iloc(df_ind, i))
                    /\ \A m \in AtBar(all, df_ind, i) :
                          all[m].kind \notin VOLUME_RULES

C9_Witness ==
    /\ Framed /\ stage = "signals"
    /\ \E i \in Bars(df_ind) :
          LET row == iloc(df_ind, i)
              prev == iloc(df_ind, i - 1)
          IN  /\ i < WINDOW - 1 /\ row.avg_volume = NaN /\ row.volume > 0
              /\ EmaUp(row) /\ MacdUp(row, prev)
              /\ AtBar(ScanSignals(df_ind), df_ind, i) = {}
    /\ \E i \in Bars(df_ind) :
          LET row == iloc(df_ind, i)
              prev == iloc(df_ind, i - 1)
          IN  /\ row.avg_volume = Num(0)
              /\ \/ EmaUp(row) /\ MacdUp(row, prev)
                 \/ EmaDown(row) /\ MacdDown(row, prev)

\* ------------------------------------------------------------------------
\* Properties of the monitoring session (checked under Spec)
\* ------------------------------------------------------------------------
Calls == 1..Len(log)

DedupKey(text) == <<text.symbol, text.time, text.kind>>

RunOver == Between /\ tick >= 1

\* C1 as claimed: over the ticks of a session no two notifications go out
\* for the same (instrument, bar timestamp, signal kind), also when the
\* open last bar's close moves between ticks while the same rule keeps
\* firing for it.  Stated for the deliveries the transport accepted.
C1_OnceForEachKey ==
    \A i \in Calls : \A j \in Calls :
        (i < j /\ log[i].ok /\ log[j].ok
              /\ log[i].text.symbol \in DOMAIN sent_signals)
            => DedupKey(log[i].text) # DedupKey(log[j].text)

Steady(s) == market[s].jump = FirstJump

AllDelivered(s) == \A i \in Calls : log[i].text.symbol = s => log[i].ok

CallsOf(text) == {i \in Calls : log[i].text = text}

\* C3 as claimed: an instrument whose series stays unchanged over the
\* ticks, with every delivery succeeding: each of its signals is notified
\* exactly once, in the first tick that produces it, and never again.
C3_UnchangedSeriesNotifiedOnce ==
    \A s \in Instruments :
        (configured /\ Steady(s) /\ AllDelivered(s)) =>
            /\ \A p \in produced :
                  p.text.symbol = s => Cardinality(CallsOf(p.text)) <= 1
            /\ RunOver =>
                  \A p \in produced :
                      p.text.symbol = s =>
                          \E i \in CallsOf(p.text) : log[i].tick = p.tick

\* C7 as claimed: when a run of the script is over, every position of the
\* symbol list has been evaluated in it, whatever happened for the others.
C7_EveryInstrumentEvaluated ==
    RunOver => evaluated = 0..(Len(symbols) - 1)

\* C10: for an instrument that was in the symbol list when sent_signals
\* was created, no text is delivered successfully twice, every text in
\* sent_signals[symbol] was delivered successfully before, and no text is
\* in the list twice.
C10_RecordMatchesDeliveries ==
    \A s \in DOMAIN sent_signals :
        /\ \A i \in Calls : \A j \in Calls :
              (i < j /\ log[i].ok /\ log[j].ok /\ log[i].text.symbol = s)
                  => log[i].text # log[j].text
        /\ \A k \in 1..Len(sent_signals[s]) :
              /\ \E i \in Calls : log[i].ok /\ log[i].text = sent_signals[s][k]
              /\ \A m \in 1..Len(sent_signals[s]) :
                    sent_signals[s][m] = sent_signals[s][k] => m = k

\* A text failed in one tick, was delivered in a later one, and in a third
\* the same text is produced again and passed over.
C10_Witness ==
    /\ pc = "notify" /\ Len(todo) >= 1 /\ sig_idx = Len(todo)
    /\ symbols[idx + 1] \in DOMAIN sent_signals
    /\ LET text == FullSig(symbols[idx + 1], todo[Len(todo)])
       IN  /\ text \in Range(sent_signals[symbols[idx + 1]])
           /\ \E i \in Calls : \E j \in Calls :
                 /\ log[i].text = text /\ ~log[i].ok
                 /\ log[j].text = text /\ log[j].ok
                 /\ log[i].tick < log[j].tick /\ log[j].tick < tick

====
